---- MODULE Spec2Model ----
(***************************************************************************)
(* Model of app_cpa.c: the CPA dialplan application (callProgress), its    *)
(* configuration loader (load_config) and the module load/reload entry     *)
(* points.  One channel runs one CPA invocation; the configuration file    *)
(* may be edited and the module reloaded at any time.                      *)
(***************************************************************************)
EXTENDS Integers, Sequences, FiniteSets, TLC

VARIABLES
    dfltSilenceThreshold,   \* static int dfltSilenceThreshold
    dfltTotalAnalysisTime,  \* static int dfltTotalAnalysisTime
    registered,             \* the application is registered (load_module succeeded)
    cfgFile,                \* cpa.conf as it is on disk
    cfgChanged,             \* cpa.conf was modified since the config cache last read it
    data,                   \* the argument string of the CPA() call, split at the comma
    ptime,                  \* duration in ms of the voice frames of the channel
    pc,                     \* position of callProgress: "idle", "sampling", "done"
    maxWaitTimeForFrame,
    silenceThreshold,
    totalAnalysisTime,
    THRESH_SILENCE,
    res,
    framelength,
    iTotalTime,
    toneState,
    lastTone,
    tcount,
    cpaStatus,
    dsp,                    \* struct ast_dsp: its tstate and tcount
    CPASTATUS,              \* the channel variable, a sequence of the values set
    exitBy,                 \* how the invocation left: the return or break taken
    onlyStalls              \* every iteration so far was a stall: wait 0, null frame

gvars == <<dfltSilenceThreshold, dfltTotalAnalysisTime, registered, cfgFile, cfgChanged>>
evars == <<data, ptime>>
cvars == <<maxWaitTimeForFrame, silenceThreshold, totalAnalysisTime, THRESH_SILENCE>>
lvars == <<res, framelength, iTotalTime, toneState, lastTone, tcount, cpaStatus, dsp>>
hvars == <<exitBy, onlyStalls>>
vars == <<gvars, evars, pc, cvars, lvars, CPASTATUS, hvars>>

----------------------------------------------------------------------------
(* Program constants *)

DfltMaxWaitTimeForFrame == 50
CompiledSilenceThreshold == 100
CompiledTotalAnalysisTime == 1000
THRESH_RING == 8
THRESH_TALK == 2
THRESH_BUSY == 4
THRESH_CONGESTION == 4
THRESH_HANGUP == 60
SilenceChunkMs == 20

\* ast_dsp_get_threshold_from_settings(THRESHOLD_SILENCE): the engine's value
EngineSilenceThreshold == 256

\* enum of the DSP tone states (asterisk/dsp.h), by name
DSP_TONE_STATE_SILENCE == "SILENCE"
DSP_TONE_STATE_RINGING == "RINGING"
DSP_TONE_STATE_TALKING == "TALKING"
DSP_TONE_STATE_BUSY == "BUSY"
DSP_TONE_STATE_SPECIAL1 == "SPECIAL1"
DSP_TONE_STATE_SPECIAL3 == "SPECIAL3"
DSP_TONE_STATE_HUNGUP == "HUNGUP"

ToneStates == {DSP_TONE_STATE_SILENCE, DSP_TONE_STATE_RINGING, DSP_TONE_STATE_TALKING,
               DSP_TONE_STATE_BUSY, DSP_TONE_STATE_SPECIAL1, DSP_TONE_STATE_SPECIAL3,
               DSP_TONE_STATE_HUNGUP}

----------------------------------------------------------------------------
(* atoi: strings are sequences of one-character strings *)

Digits == <<"0", "1", "2", "3", "4", "5", "6", "7", "8", "9">>

IsDigit(c) == \E i \in 1..10 : Digits[i] = c

DigitVal(c) == (CHOOSE i \in 1..10 : Digits[i] = c) - 1

RECURSIVE AtoiDigits(_, _)
AtoiDigits(s, acc) ==
    IF s = <<>> \/ ~IsDigit(Head(s)) THEN acc
    ELSE AtoiDigits(Tail(s), acc * 10 + DigitVal(Head(s)))

Atoi(s) ==
    IF s = <<>> THEN 0
    ELSE IF Head(s) = "-" THEN 0 - AtoiDigits(Tail(s), 0)
    ELSE IF Head(s) = "+" THEN AtoiDigits(Tail(s), 0)
    ELSE AtoiDigits(s, 0)

ast_strlen_zero(s) == s = <<>>

E == <<>>

----------------------------------------------------------------------------
(* cpa.conf: its load status and the variables of its [general] category *)

V(n, v) == [name |-> n, value |-> v]

CfgMissing == [status |-> "missing", general |-> <<>>]
CfgInvalid == [status |-> "invalid", general |-> <<>>]
CfgEmpty == [status |-> "ok", general |-> <<>>]
CfgSilence == [status |-> "ok",
               general |-> <<V("silence_threshold", <<"1", "5", "0">>), V("bogus", <<"1">>)>>]
CfgBoth == [status |-> "ok",
            general |-> <<V("silence_threshold", <<"1", "5", "0">>),
                          V("total_analysis_time", <<"5", "0", "0">>)>>]

\* a file whose values are not positive numbers
CfgBad == [status |-> "ok",
           general |-> <<V("silence_threshold", <<"a", "b", "c">>),
                         V("total_analysis_time", <<"-", "5">>)>>]

CfgFiles == {CfgMissing, CfgInvalid, CfgEmpty, CfgSilence, CfgBoth, CfgBad}

\* the while (var) loop of load_config over the variables of [general]
RECURSIVE BrowseVariables(_, _)
BrowseVariables(vs, d) ==
    IF vs = <<>> THEN d
    ELSE LET var == Head(vs)
             d1 == IF var.name = "silence_threshold"
                       THEN [d EXCEPT !.silence = Atoi(var.value)]
                   ELSE IF var.name = "total_analysis_time"
                       THEN [d EXCEPT !.total = Atoi(var.value)]
                   ELSE d
         IN  BrowseVariables(Tail(vs), d1)

\* ast_config_load("cpa.conf", config_flags)
ast_config_load(reload) ==
    IF cfgFile.status = "missing" THEN "NULL"
    ELSE IF reload /\ ~cfgChanged THEN "CONFIG_STATUS_FILEUNCHANGED"
    ELSE IF cfgFile.status = "invalid" THEN "CONFIG_STATUS_FILEINVALID"
    ELSE "cfg"

\* load_config(reload): the new defaults and the return value
load_config(reload) ==
    LET d0 == [silence |-> EngineSilenceThreshold, total |-> dfltTotalAnalysisTime]
        cfg == ast_config_load(reload)
    IN  IF cfg = "NULL" THEN [d |-> d0, ret |-> -1]
        ELSE IF cfg = "CONFIG_STATUS_FILEUNCHANGED" THEN [d |-> d0, ret |-> 0]
        ELSE IF cfg = "CONFIG_STATUS_FILEINVALID" THEN [d |-> d0, ret |-> -1]
        ELSE [d |-> BrowseVariables(cfgFile.general, d0), ret |-> 0]

\* the config cache remembers the file once it has been read
CacheAfterLoad(reload) ==
    IF ast_config_load(reload) \in {"cfg", "CONFIG_STATUS_FILEINVALID"} THEN FALSE ELSE cfgChanged

----------------------------------------------------------------------------
(* Inputs *)

\* CPA(silenceThreshold,totalAnalysisTime) as written in the dialplan
ArgsNone == <<E, E>>
ArgsBoth == <<<<"5", "0">>, <<"3", "0", "0">>>>
ArgsTotal == <<E, <<"6", "2", "0">>>>
ArgsSmall == <<<<"0">>, <<"3", "0">>>>
ArgsCfg == {ArgsNone, ArgsBoth, ArgsSmall}

\* voice frame durations: ast_codec_samples_count(f) / DEFAULT_SAMPLES_PER_MS
FrameLensCfg == {100}

\* the calls of the first specification: cpa.conf, the arguments, the frame duration
Call(c, a, p) == [cfg |-> c, data |-> a, ptime |-> p]
Calls == {Call(CfgMissing, ArgsNone, 50), Call(CfgEmpty, ArgsNone, 50),
          Call(CfgBoth, ArgsNone, 50), Call(CfgEmpty, ArgsBoth, 10),
          Call(CfgSilence, ArgsTotal, 10)}

\* iTotalTime is followed down to this much below 0
MaxUnderrunMs == 20

\* ast_waitfor: -1 on error, 0 when the time ran out, else the ms that remain
MaxRemainingMs == 2
WaitResults == -1 .. MaxRemainingMs

FrameTypes == {"AST_FRAME_VOICE", "AST_FRAME_NULL", "AST_FRAME_CNG", "AST_FRAME_CONTROL"}

\* the frames the channel can deliver: a voice frame carries a tone
Frames == [frametype : {"AST_FRAME_VOICE"}, tone : ToneStates]
          \cup [frametype : FrameTypes \ {"AST_FRAME_VOICE"}, tone : {DSP_TONE_STATE_SILENCE}]

----------------------------------------------------------------------------
(* The DSP: ast_dsp_new, ast_dsp_call_progress, ast_dsp_get_tstate/tcount *)

ast_dsp_new == [tstate |-> DSP_TONE_STATE_SILENCE, tcount |-> 0]

\* one chunk classified as newstate; frames that are not voice are not analysed
ast_dsp_call_progress(d, frametype, newstate) ==
    IF frametype # "AST_FRAME_VOICE" THEN d
    ELSE IF newstate = d.tstate THEN [d EXCEPT !.tcount = d.tcount + 1]
    ELSE [tstate |-> newstate, tcount |-> 1]

----------------------------------------------------------------------------
(* callProgress *)

\* the switch with the Ringing case not setting res
ToneSwitch_NoBreak(ts, tc, st, r) ==
    IF ts = DSP_TONE_STATE_RINGING THEN
        IF tc = THRESH_RING THEN [cpaStatus |-> "Ringing", res |-> r]
        ELSE [cpaStatus |-> st, res |-> r]
    ELSE IF ts = DSP_TONE_STATE_SILENCE THEN
        IF tc > THRESH_SILENCE THEN [cpaStatus |-> "Silence", res |-> r]
        ELSE [cpaStatus |-> st, res |-> r]
    ELSE IF ts = DSP_TONE_STATE_BUSY THEN
        IF tc = THRESH_BUSY THEN [cpaStatus |-> "Busy", res |-> 1]
        ELSE [cpaStatus |-> st, res |-> r]
    ELSE IF ts = DSP_TONE_STATE_TALKING THEN
        IF tc = THRESH_TALK THEN [cpaStatus |-> "Talking", res |-> 1]
        ELSE [cpaStatus |-> st, res |-> r]
    ELSE IF ts = DSP_TONE_STATE_SPECIAL3 THEN
        IF tc = THRESH_CONGESTION THEN [cpaStatus |-> "Congestion", res |-> 1]
        ELSE [cpaStatus |-> st, res |-> r]
    ELSE IF ts = DSP_TONE_STATE_HUNGUP THEN
        IF tc = THRESH_HANGUP THEN [cpaStatus |-> "Hungup", res |-> 1]
        ELSE [cpaStatus |-> st, res |-> r]
    ELSE [cpaStatus |-> st, res |-> r]

\* the switch with the Talking case comparing as the Silence case does
ToneSwitch_TalkGreater(ts, tc, st, r) ==
    IF ts = DSP_TONE_STATE_RINGING THEN
        IF tc = THRESH_RING THEN [cpaStatus |-> "Ringing", res |-> 1]
        ELSE [cpaStatus |-> st, res |-> r]
    ELSE IF ts = DSP_TONE_STATE_SILENCE THEN
        IF tc > THRESH_SILENCE THEN [cpaStatus |-> "Silence", res |-> r]
        ELSE [cpaStatus |-> st, res |-> r]
    ELSE IF ts = DSP_TONE_STATE_BUSY THEN
        IF tc = THRESH_BUSY THEN [cpaStatus |-> "Busy", res |-> 1]
        ELSE [cpaStatus |-> st, res |-> r]
    ELSE IF ts = DSP_TONE_STATE_TALKING THEN
        IF tc > THRESH_TALK THEN [cpaStatus |-> "Talking", res |-> 1]
        ELSE [cpaStatus |-> st, res |-> r]
    ELSE IF ts = DSP_TONE_STATE_SPECIAL3 THEN
        IF tc = THRESH_CONGESTION THEN [cpaStatus |-> "Congestion", res |-> 1]
        ELSE [cpaStatus |-> st, res |-> r]
    ELSE IF ts = DSP_TONE_STATE_HUNGUP THEN
        IF tc = THRESH_HANGUP THEN [cpaStatus |-> "Hungup", res |-> 1]
        ELSE [cpaStatus |-> st, res |-> r]
    ELSE [cpaStatus |-> st, res |-> r]

\* the switch (toneState) of the repeated-tone branch: new cpaStatus and res
ToneSwitch(ts, tc, st, r) ==
    IF ts = DSP_TONE_STATE_RINGING THEN
        IF tc = THRESH_RING THEN [cpaStatus |-> "Ringing", res |-> 1]
        ELSE [cpaStatus |-> st, res |-> r]
    ELSE IF ts = DSP_TONE_STATE_SILENCE THEN
        IF tc > THRESH_SILENCE THEN [cpaStatus |-> "Silence", res |-> r]
        ELSE [cpaStatus |-> st, res |-> r]
    ELSE IF ts = DSP_TONE_STATE_BUSY THEN
        IF tc = THRESH_BUSY THEN [cpaStatus |-> "Busy", res |-> 1]
        ELSE [cpaStatus |-> st, res |-> r]
    ELSE IF ts = DSP_TONE_STATE_TALKING THEN
        IF tc = THRESH_TALK THEN [cpaStatus |-> "Talking", res |-> 1]
        ELSE [cpaStatus |-> st, res |-> r]
    ELSE IF ts = DSP_TONE_STATE_SPECIAL3 THEN
        IF tc = THRESH_CONGESTION THEN [cpaStatus |-> "Congestion", res |-> 1]
        ELSE [cpaStatus |-> st, res |-> r]
    ELSE IF ts = DSP_TONE_STATE_HUNGUP THEN
        IF tc = THRESH_HANGUP THEN [cpaStatus |-> "Hungup", res |-> 1]
        ELSE [cpaStatus |-> st, res |-> r]
    ELSE [cpaStatus |-> st, res |-> r]

\* the break test taking every res below 2
BreakAfterSwitch_Below2(r) == r < 2

\* the break test that follows the switch
BreakAfterSwitch(r) == r = 1

\* the test after the loop taking every res that is not positive
FinalStatus_NonPositive(st, r) == IF r <= 0 THEN "NOTSURE" ELSE st

\* the code after the loop: if (!res) NOTSURE, then publish CPASTATUS
FinalStatus(st, r) == IF r = 0 THEN "NOTSURE" ELSE st

AfterLoop(st, r, how, stall) ==
    /\ onlyStalls' = (onlyStalls /\ stall)
    /\ res' = r
    /\ cpaStatus' = FinalStatus(st, r)
    /\ CPASTATUS' = Append(CPASTATUS, FinalStatus(st, r))
    /\ pc' = "done"
    /\ exitBy' = how

\* the locals as declared, the arguments parsed, the wait clamped
SilenceArg == IF ast_strlen_zero(data[1]) THEN dfltSilenceThreshold ELSE Atoi(data[1])
TotalArg == IF ast_strlen_zero(data[2]) THEN dfltTotalAnalysisTime ELSE Atoi(data[2])
\* the wait left as it is
ClampWait_None(w, total) == w

ClampWait(w, total) == IF w > total THEN total ELSE w

\* the timeout handed to ast_waitfor
WaitTimeout == 2 * maxWaitTimeForFrame

\* C truncating division
CDiv(a, b) == IF a >= 0 THEN a \div b ELSE 0 - ((0 - a) \div b)

\* entry of callProgress up to the loop; pre is the outcome of
\* ast_set_read_format and ast_dsp_new
Enter(pre) ==
    /\ pc = "idle"
    /\ registered
    /\ silenceThreshold' = SilenceArg
    /\ totalAnalysisTime' = TotalArg
    /\ maxWaitTimeForFrame' = ClampWait(DfltMaxWaitTimeForFrame, TotalArg)
    /\ THRESH_SILENCE' = CDiv(SilenceArg, SilenceChunkMs)
    /\ dsp' = ast_dsp_new
    /\ IF pre = "ok"
          THEN /\ pc' = "sampling"
               /\ UNCHANGED <<CPASTATUS, exitBy>>
          ELSE /\ pc' = "done"
               /\ CPASTATUS' = Append(CPASTATUS, "")
               /\ exitBy' = pre
    /\ onlyStalls' = TRUE
    /\ UNCHANGED <<gvars, evars, res, framelength, iTotalTime, toneState, lastTone,
                   tcount, cpaStatus>>

\* ast_waitfor returns -1: the loop condition fails
WaitFail ==
    /\ pc = "sampling"
    /\ AfterLoop(cpaStatus, -1, "waitfail", FALSE)
    /\ UNCHANGED <<gvars, evars, cvars, framelength, iTotalTime, toneState, lastTone,
                   tcount, dsp>>

\* the hangup branch not setting res
HangupRes_Kept(w) == w

\* res as the hangup branch leaves it
HangupRes(w) == 1

\* ast_read returns NULL
ReadFail(w) ==
    /\ pc = "sampling"
    /\ w > -1
    /\ AfterLoop("Hungup", HangupRes(w), "hangup", FALSE)
    /\ UNCHANGED <<gvars, evars, cvars, framelength, iTotalTime, toneState, lastTone,
                   tcount, dsp>>

\* a frame of another type restarting the run count
OtherFrame_Restart(w, ft) ==
    /\ pc = "sampling"
    /\ w > -1
    /\ ft \notin {"AST_FRAME_VOICE", "AST_FRAME_NULL", "AST_FRAME_CNG"}
    /\ res' = w
    /\ onlyStalls' = FALSE
    /\ tcount' = 0
    /\ UNCHANGED <<gvars, evars, pc, cvars, framelength, iTotalTime, toneState, lastTone,
                   cpaStatus, dsp, CPASTATUS, exitBy>>

\* a frame that is neither voice, null nor comfort noise
OtherFrame(w, ft) ==
    /\ pc = "sampling"
    /\ w > -1
    /\ ft \notin {"AST_FRAME_VOICE", "AST_FRAME_NULL", "AST_FRAME_CNG"}
    /\ res' = w
    /\ onlyStalls' = FALSE
    /\ UNCHANGED <<gvars, evars, pc, cvars, framelength, iTotalTime, toneState, lastTone,
                   tcount, cpaStatus, dsp, CPASTATUS, exitBy>>

FrameLength(ft) == IF ft = "AST_FRAME_VOICE" THEN ptime ELSE 2 * maxWaitTimeForFrame

\* the budget test with > for >=
BudgetExhausted_Strict(t) == t > totalAnalysisTime

\* the budget test reading the module default for the session's own value
BudgetExhausted_Global(t) == t >= dfltTotalAnalysisTime

BudgetExhausted(t) == t >= totalAnalysisTime

\* the else branch not resetting tcount
ToneChanged_NoReset(ts, oldcount) == [lastTone |-> ts, tcount |-> oldcount]

\* the else branch of the tone comparison: a new tone starts
ToneChanged(ts, oldcount) == [lastTone |-> ts, tcount |-> 1]

\* no frame came within the wait and the read gave a null frame
IsStall(w, ft) == w = 0 /\ ft = "AST_FRAME_NULL"

\* a voice, null or comfort-noise frame; newstate is what the DSP hears in it
AudioFrame(w, ft, newstate) ==
    /\ pc = "sampling"
    /\ w > -1
    /\ ft \in {"AST_FRAME_VOICE", "AST_FRAME_NULL", "AST_FRAME_CNG"}
    /\ iTotalTime + FrameLength(ft) >= 0 - MaxUnderrunMs
    /\ framelength' = FrameLength(ft)
    /\ iTotalTime' = iTotalTime + FrameLength(ft)
    /\ IF BudgetExhausted(iTotalTime + FrameLength(ft))
          THEN /\ AfterLoop("Unknown", w, "budget", IsStall(w, ft))
               /\ UNCHANGED <<toneState, lastTone, tcount, dsp>>
          ELSE LET d == ast_dsp_call_progress(dsp, ft, newstate)
                   sw == ToneSwitch(d.tstate, d.tcount, cpaStatus, w)
                   ch == ToneChanged(d.tstate, tcount)
               IN  /\ dsp' = d
                   /\ toneState' = d.tstate
                   /\ IF d.tstate = lastTone
                         THEN /\ tcount' = d.tcount
                              /\ UNCHANGED lastTone
                              /\ IF BreakAfterSwitch(sw.res)
                                    THEN AfterLoop(sw.cpaStatus, sw.res, "switch",
                                                   IsStall(w, ft))
                                    ELSE /\ res' = sw.res
                                         /\ cpaStatus' = sw.cpaStatus
                                         /\ onlyStalls' = (onlyStalls /\ IsStall(w, ft))
                                         /\ UNCHANGED <<pc, CPASTATUS, exitBy>>
                         ELSE /\ lastTone' = ch.lastTone
                              /\ tcount' = ch.tcount
                              /\ res' = w
                              /\ onlyStalls' = FALSE
                              /\ UNCHANGED <<pc, cpaStatus, CPASTATUS, exitBy>>
    /\ UNCHANGED <<gvars, evars, cvars>>

----------------------------------------------------------------------------
(* Module entry points and the administrator *)

\* load_module: load_config(0), then the application is registered
LoadModule ==
    /\ ~registered
    /\ LET r == load_config(FALSE)
       IN  /\ dfltSilenceThreshold' = r.d.silence
           /\ dfltTotalAnalysisTime' = r.d.total
           /\ registered' = (r.ret = 0)
    /\ cfgChanged' = CacheAfterLoad(FALSE)
    /\ UNCHANGED <<cfgFile, evars, pc, cvars, lvars, CPASTATUS, hvars>>

\* reload: load_config(1)
Reload ==
    /\ registered
    /\ LET r == load_config(TRUE)
       IN  /\ dfltSilenceThreshold' = r.d.silence
           /\ dfltTotalAnalysisTime' = r.d.total
    /\ cfgChanged' = CacheAfterLoad(TRUE)
    /\ UNCHANGED <<registered, cfgFile, evars, pc, cvars, lvars, CPASTATUS, hvars>>

\* cpa.conf is rewritten on disk
EditConfig(f) ==
    /\ f # cfgFile
    /\ cfgFile' = f
    /\ cfgChanged' = TRUE
    /\ UNCHANGED <<dfltSilenceThreshold, dfltTotalAnalysisTime, registered, evars, pc,
                   cvars, lvars, CPASTATUS, hvars>>

----------------------------------------------------------------------------

InitState ==
    /\ dfltSilenceThreshold = CompiledSilenceThreshold
    /\ dfltTotalAnalysisTime = CompiledTotalAnalysisTime
    /\ registered = FALSE
    /\ cfgChanged = FALSE
    /\ pc = "idle"
    /\ maxWaitTimeForFrame = DfltMaxWaitTimeForFrame
    /\ silenceThreshold = CompiledSilenceThreshold
    /\ totalAnalysisTime = CompiledTotalAnalysisTime
    /\ THRESH_SILENCE = 12
    /\ res = 0
    /\ framelength = 0
    /\ iTotalTime = 0
    /\ toneState = DSP_TONE_STATE_SILENCE
    /\ lastTone = DSP_TONE_STATE_SILENCE
    /\ tcount = 0
    /\ cpaStatus = ""
    /\ dsp = ast_dsp_new
    /\ CPASTATUS = <<>>
    /\ exitBy = "none"
    /\ onlyStalls = TRUE

EnterStep == \E pre \in {"ok", "format", "dsp"} : Enter(pre)
ReadFailStep == \E w \in WaitResults : ReadFail(w)
OtherFrameStep == \E w \in WaitResults, ft \in FrameTypes : OtherFrame(w, ft)
AudioFrameStep == \E w \in WaitResults, f \in Frames : AudioFrame(w, f.frametype, f.tone)
EditConfigStep == \E f \in CfgFiles : EditConfig(f)

(* One call on a module loaded from a configuration file that stays as it is *)
Init ==
    /\ InitState
    /\ \E c \in Calls : cfgFile = c.cfg /\ data = c.data /\ ptime = c.ptime

Next ==
    \/ LoadModule
    \/ EnterStep
    \/ WaitFail
    \/ ReadFailStep
    \/ OtherFrameStep
    \/ AudioFrameStep

Spec == Init /\ [][Next]_vars

(* The same with reloads and edits of cpa.conf at any time *)
InitCfg ==
    /\ InitState
    /\ cfgFile \in CfgFiles
    /\ data \in ArgsCfg
    /\ ptime \in FrameLensCfg

NextCfg ==
    \/ Next
    \/ Reload
    \/ EditConfigStep

SpecCfg == InitCfg /\ [][NextCfg]_vars

----------------------------------------------------------------------------
(* Properties *)

Labels == {"Ringing", "Busy", "Hungup", "Congestion", "Talking", "Silence",
           "Unknown", "NOTSURE"}
Undetermined == {"Unknown", "NOTSURE"}

\* the classes that have an accept threshold, their threshold and their label
Threshold(c) ==
    CASE c = DSP_TONE_STATE_RINGING -> THRESH_RING
      [] c = DSP_TONE_STATE_BUSY -> THRESH_BUSY
      [] c = DSP_TONE_STATE_SPECIAL3 -> THRESH_CONGESTION
      [] c = DSP_TONE_STATE_TALKING -> THRESH_TALK
      [] c = DSP_TONE_STATE_HUNGUP -> THRESH_HANGUP
Label(c) ==
    CASE c = DSP_TONE_STATE_RINGING -> "Ringing"
      [] c = DSP_TONE_STATE_BUSY -> "Busy"
      [] c = DSP_TONE_STATE_SPECIAL3 -> "Congestion"
      [] c = DSP_TONE_STATE_TALKING -> "Talking"
      [] c = DSP_TONE_STATE_HUNGUP -> "Hungup"
VerdictClasses == {DSP_TONE_STATE_RINGING, DSP_TONE_STATE_BUSY, DSP_TONE_STATE_SPECIAL3,
                   DSP_TONE_STATE_TALKING, DSP_TONE_STATE_HUNGUP}
ClassLabels == {Label(c) : c \in VerdictClasses}

Done == pc = "done"
Published(st) == Done /\ CPASTATUS = <<st>>
EnteredLoop == exitBy \notin {"format", "dsp"}

\* C1: CPASTATUS is published exactly once per invocation, at the moment the
\* invocation ends; while the loop runs no terminal label is held, and once the
\* loop has been left no wait, read or classification can take place any more.
C1_PublishedOnce ==
    /\ Len(CPASTATUS) = (IF Done THEN 1 ELSE 0)
    /\ (pc = "sampling" => cpaStatus \in {"", "Silence"})
    /\ (Done => ~ENABLED (WaitFail \/ ReadFailStep \/ OtherFrameStep \/ AudioFrameStep
                          \/ EnterStep))

C1_Witness == Published("Ringing") /\ exitBy = "switch"

\* C2: the published status is one of the eight labels or the empty string, and
\* the empty string is published only when a precondition failed, never by a
\* session that entered the sampling loop.
C2_EmptyOnlyOnPrecondition ==
    Done => /\ CPASTATUS[1] \in Labels \cup {""}
            /\ (CPASTATUS[1] = "" => ~EnteredLoop)

\* C3: the verdict of a class C with a threshold is produced exactly at the step
\* where the run of C reaches threshold(C): a run never passes its threshold
\* while the loop goes on, a break at the threshold publishes the label of C, and
\* a label set by the switch is published only at run length threshold(C).
C3_VerdictExactlyAtThreshold ==
    /\ (pc = "sampling" /\ lastTone \in VerdictClasses => tcount < Threshold(lastTone))
    /\ (Done /\ exitBy = "switch" /\ toneState \in VerdictClasses
             /\ tcount = Threshold(toneState)
          => CPASTATUS = <<Label(toneState)>>)
    /\ (Done /\ exitBy = "switch" /\ CPASTATUS[1] \in ClassLabels
          => /\ toneState \in VerdictClasses
             /\ CPASTATUS[1] = Label(toneState)
             /\ tcount = Threshold(toneState)
             /\ dsp.tcount = Threshold(toneState))
    /\ (Done /\ CPASTATUS[1] \in ClassLabels => exitBy \in {"switch", "hangup"})
    /\ (Done /\ exitBy = "hangup" => CPASTATUS[1] = "Hungup")

C3_Witness == Published("Hungup") /\ exitBy = "switch" /\ tcount = THRESH_HANGUP

\* C4: a step whose observation is Silence never takes the session out of the
\* sampling loop, whatever the wait call returned, and the session is never
\* ended with "Silence" published by such a step.
C4_SilenceNeverTerminal ==
    ~(Done /\ exitBy = "switch" /\ toneState = DSP_TONE_STATE_SILENCE)

\* C5: a step that brings iTotalTime to totalAnalysisTime or beyond ends the
\* session with "Unknown" or "NOTSURE"; every step that goes on or that ends
\* with a class verdict left iTotalTime below totalAnalysisTime.
C5_BudgetForcesUndetermined ==
    /\ (Done /\ exitBy = "budget"
          => CPASTATUS[1] \in Undetermined /\ iTotalTime >= totalAnalysisTime)
    /\ (pc # "idle" /\ EnteredLoop /\ exitBy # "budget" /\ iTotalTime # 0
          => iTotalTime < totalAnalysisTime)

C5_Witness ==
    /\ Done /\ exitBy = "budget"
    /\ lastTone = DSP_TONE_STATE_RINGING /\ tcount = THRESH_RING - 1

\* C6: a step in which the classifier hears a class that differs from the last
\* one sets lastTone to the new class and tcount to 1, produces no verdict and
\* keeps the loop going; lastTone and tcount always follow the classifier.
C6_ClassChangeRestarts ==
    /\ [](pc # "idle" => lastTone = dsp.tstate /\ tcount = dsp.tcount)
    /\ [][pc = "sampling" /\ dsp'.tstate # dsp.tstate
            => (/\ lastTone' = dsp'.tstate
                /\ tcount' = 1
                /\ pc' = "sampling"
                /\ cpaStatus' = cpaStatus
                /\ CPASTATUS' = CPASTATUS)]_vars

\* seven Ringing chunks, a Silence chunk and Ringing again: the run is 1
C6_Witness ==
    /\ pc = "sampling" /\ lastTone = DSP_TONE_STATE_RINGING /\ tcount = 1
    /\ iTotalTime >= (THRESH_RING + 1) * ptime

\* C7: a failed read ends the session at once with "Hungup" published and
\* iTotalTime as it was, whatever the wait call returned.
C7_ReadFailureIsHungup ==
    /\ [](Done /\ exitBy = "hangup" => CPASTATUS = <<"Hungup">>)
    /\ [][pc = "sampling" /\ exitBy' = "hangup"
            => (/\ ReadFailStep
                /\ pc' = "done"
                /\ CPASTATUS' = <<"Hungup">>
                /\ iTotalTime' = iTotalTime)]_vars
    /\ [](pc = "sampling" => ENABLED ReadFailStep)

C7_Witness == Published("Hungup") /\ exitBy = "hangup" /\ iTotalTime = 0 /\ res = 1

\* C8: a session made of stalls only (wait 0, null frame) ends with "Unknown" or
\* "NOTSURE" and iTotalTime >= totalAnalysisTime, and an iteration whose wait
\* returned 0 leaves the loop on a null or comfort-noise frame only by the
\* budget, and on a voice frame only by the budget or by a class verdict at
\* its threshold.
C8_StallNeverEnds ==
    /\ [](Done /\ EnteredLoop /\ onlyStalls
            => /\ CPASTATUS[1] \in Undetermined
               /\ exitBy = "budget"
               /\ iTotalTime >= totalAnalysisTime)
    /\ [][pc = "sampling" /\ exitBy' = "switch"
            => \A f \in Frames :
                 AudioFrame(0, f.frametype, f.tone)
                 => /\ f.frametype = "AST_FRAME_VOICE"
                    /\ f.tone \in VerdictClasses
                    /\ CPASTATUS' = <<Label(f.tone)>>
                    /\ tcount' = Threshold(f.tone)]_vars

C8_Witness == Published("NOTSURE") /\ onlyStalls /\ iTotalTime >= 500 /\ totalAnalysisTime = 500

\* C9: when the wait call returns -1 the published status is "Unknown" or
\* "NOTSURE".
C9_TransportErrorUndetermined ==
    Done /\ exitBy = "waitfail" => CPASTATUS[1] \in Undetermined

\* the value a key of [general] has in cpa.conf, or dflt when it has none
RECURSIVE ConfigValue(_, _, _)
ConfigValue(vs, key, dflt) ==
    IF vs = <<>> THEN dflt
    ELSE ConfigValue(Tail(vs), key,
                     IF Head(vs).name = key THEN Atoi(Head(vs).value) ELSE dflt)

Layered(arg, key, dflt) ==
    IF arg # E THEN Atoi(arg) ELSE ConfigValue(cfgFile.general, key, dflt)

\* C10: a session that starts when the last load or reload has seen cpa.conf as
\* it is takes the override if given, else the value cpa.conf sets, else the
\* default, for the silence threshold and the total analysis time.
C10_Layering ==
    [][EnterStep /\ ~cfgChanged /\ cfgFile.status = "ok"
         => /\ silenceThreshold' = Layered(data[1], "silence_threshold", EngineSilenceThreshold)
            /\ totalAnalysisTime' = Layered(data[2], "total_analysis_time",
                                            CompiledTotalAnalysisTime)]_vars

\* C11: the defaults are strictly positive after every load of cpa.conf, and a
\* session that is sampling has a strictly positive silence threshold, total
\* analysis time and number of silence chunks (silence threshold / 20), next
\* to the positive thresholds of the other classes.
C11_ThresholdsStrictlyPositive ==
    /\ dfltSilenceThreshold > 0
    /\ dfltTotalAnalysisTime > 0
    /\ pc = "sampling" =>
          /\ silenceThreshold > 0
          /\ totalAnalysisTime > 0
          /\ THRESH_SILENCE > 0
          /\ \A c \in VerdictClasses : Threshold(c) > 0

\* C12: once a session has started, no step (a reload at any point included)
\* changes its silence threshold, total analysis time or per-chunk wait; a step
\* that changes a module default leaves the session where it is and does not
\* end it; the session goes on charging and testing its budget with its own
\* values; a session that starts takes the defaults as they are at that moment.
C12_ReloadLeavesSessionAlone ==
    [][/\ pc # "idle" => UNCHANGED cvars
       /\ registered /\ <<dfltSilenceThreshold, dfltTotalAnalysisTime>>' #
                        <<dfltSilenceThreshold, dfltTotalAnalysisTime>>
            => UNCHANGED <<pc, cvars, lvars, CPASTATUS, exitBy>>
       /\ pc = "sampling" /\ iTotalTime' # iTotalTime
            => /\ iTotalTime' - iTotalTime \in {ptime, 2 * maxWaitTimeForFrame}
               /\ (exitBy' = "budget") = (iTotalTime' >= totalAnalysisTime)
       /\ pc = "idle" /\ pc' # "idle"
            => /\ ast_strlen_zero(data[1]) => silenceThreshold' = dfltSilenceThreshold
               /\ ast_strlen_zero(data[2]) => totalAnalysisTime' = dfltTotalAnalysisTime]_vars

C12_Witness ==
    /\ pc = "sampling"
    /\ iTotalTime > 0
    /\ ast_strlen_zero(data[2])
    /\ dfltTotalAnalysisTime # totalAnalysisTime

\* C13: in a session that has started the per-chunk wait is the smaller of the
\* default per-chunk wait and the total analysis time, so it never exceeds the
\* total analysis time and the wait timeout never exceeds twice that time.
C13_WaitClamped ==
    pc # "idle" =>
        /\ maxWaitTimeForFrame = IF DfltMaxWaitTimeForFrame < totalAnalysisTime
                                    THEN DfltMaxWaitTimeForFrame
                                    ELSE totalAnalysisTime
        /\ maxWaitTimeForFrame <= totalAnalysisTime
        /\ WaitTimeout <= 2 * totalAnalysisTime

C13_Witness ==
    /\ pc = "sampling"
    /\ totalAnalysisTime = 30
    /\ maxWaitTimeForFrame = 30
    /\ WaitTimeout = 60

\* C14: the elapsed time starts at 0 and never decreases, and whenever a
\* charged chunk leaves the session sampling the elapsed time is below the
\* total analysis time.
C14_ElapsedMonotonic ==
    [][/\ iTotalTime >= 0
       /\ iTotalTime' >= iTotalTime
       /\ pc' = "sampling" /\ iTotalTime' # iTotalTime
            => iTotalTime' < totalAnalysisTime]_vars

\* every wait call and every read returns: an iteration of the loop that can
\* be taken is eventually taken
Fairness == WF_vars(WaitFail \/ ReadFailStep \/ OtherFrameStep \/ AudioFrameStep)

SpecFair == Init /\ [][Next]_vars /\ Fairness

\* C15: a session that is sampling eventually leaves the loop and publishes its
\* status, whatever frames the source delivers.
C15_SamplingEnds == (pc = "sampling") ~> (pc = "done" /\ Len(CPASTATUS) = 1)

\* the session has been charged only voice chunks of class c, each of ptime ms
OnlyChunksOf(c) == dsp.tstate = c /\ dsp.tcount * ptime = iTotalTime

\* C16: a session that has observed only chunks of one class C, each of ptime
\* ms, goes on sampling below threshold(C) chunks, and when its loop breaks it
\* publishes the verdict of C at chunk threshold(C) with the elapsed time
\* threshold(C) * ptime.
C16_SingleClassRun ==
    \A c \in VerdictClasses :
        /\ pc = "sampling" /\ OnlyChunksOf(c) => dsp.tcount < Threshold(c)
        /\ Done /\ exitBy = "switch" /\ OnlyChunksOf(c)
             => /\ CPASTATUS = <<Label(c)>>
                /\ dsp.tcount = Threshold(c)
                /\ iTotalTime = Threshold(c) * ptime

\* C17: a frame that is neither voice, null nor comfort noise leaves the
\* elapsed time, the last class, the run count and the tentative label as they
\* are and the session sampling; the elapsed time changes only by a voice
\* frame's own duration or by twice the per-chunk wait of a null or
\* comfort-noise frame.
C17_OtherFramesNotCharged ==
    [][/\ pc = "sampling" /\ (\E ft \in FrameTypes : OtherFrame(res', ft))
            => /\ UNCHANGED <<iTotalTime, lastTone, tcount, cpaStatus, dsp, CPASTATUS>>
               /\ pc' = "sampling"
       /\ iTotalTime' # iTotalTime
            => /\ framelength' \in {ptime, 2 * maxWaitTimeForFrame}
               /\ iTotalTime' = iTotalTime + framelength']_vars

\* only a frame of another type clears onlyStalls before anything is charged
C17_Witness ==
    /\ pc = "sampling"
    /\ iTotalTime = 0
    /\ ~onlyStalls
    /\ res = MaxRemainingMs
    /\ tcount = 0
    /\ cpaStatus = ""

\* C18: a session that entered the loop publishes "NOTSURE" exactly when the
\* budget ran out in an iteration whose wait returned 0 and "Unknown" exactly
\* when it ran out in one whose wait returned a positive value; a session ended
\* by the break after the switch, by a hangup or by a failed wait never
\* publishes "NOTSURE" and publishes its status as the loop left it.
C18_NotSureOnlyOnStalledBudget ==
    Done /\ EnteredLoop =>
        /\ (CPASTATUS = <<"NOTSURE">>) = (exitBy = "budget" /\ res = 0)
        /\ (CPASTATUS = <<"Unknown">>) = (exitBy = "budget" /\ res > 0)
        /\ exitBy \in {"switch", "hangup", "waitfail"}
             => /\ res # 0
                /\ CPASTATUS = <<cpaStatus>>
                /\ cpaStatus \notin Undetermined
        /\ exitBy = "hangup" => CPASTATUS = <<"Hungup">>

C18_Witness ==
    /\ Published("NOTSURE")
    /\ exitBy = "budget"
    /\ res = 0
    /\ ~onlyStalls
    /\ framelength = 2 * maxWaitTimeForFrame

====
